---- MODULE Spec2Model ----
(***************************************************************************)
(* Pi-mainnet-bot: the two front ends (Pi_super_bot_flask.py, Pisuperbot.py *)
(* for Streamlit) and the send_pi retry loop both of them define.           *)
(*                                                                          *)
(* Amounts are fixed-point hundredths of a Pi (RESERVE_AMOUNT 0.01 is 1).   *)
(* A request is either a front-end submission ("handler": validate, derive, *)
(* query the balance, call send_pi with the default max_attempts) or a      *)
(* direct call of a module's send_pi with arbitrary arguments ("direct").   *)
(***************************************************************************)
EXTENDS Integers, Sequences, FiniteSets, TLC

VARIABLES
    frontend,     \* which module is executing: "flask" or "streamlit"
    via,          \* how send_pi is reached: "handler" or "direct"
    pc,           \* position of the single thread of control
    form,         \* the submitted form fields (mnemonic, destination, amount, sweep)
    args,         \* the arguments of the current send_pi call
    keypair,      \* (pub_key, secret) held by the handler
    server,       \* the Server object held by the running code
    sender_kp,    \* send_pi local
    attempts,     \* send_pi local
    last_error,   \* send_pi local
    send_amount,  \* send_pi local
    account,      \* send_pi local
    base_fee,     \* send_pi local
    tx,           \* send_pi local: the transaction of the current attempt
    result,       \* what send_pi returned (or that it raised)
    page,         \* what the front end showed for the request
    keyCache,     \* st.cache_data store of derive_pi_keypair (Streamlit module)
    serverCache,  \* st.cache_resource store of get_server (Streamlit module)
    calls,        \* history: number of calls of each collaborator in this request
    iter,         \* history: number of loop iterations begun in this request
    lastOutcome,  \* history: how the most recent attempt ended
    slept,        \* history: a time.sleep happened since the most recent attempt ended
    allPrior429,  \* history: every failed attempt so far raised a rate-limit error
    hashSeen,     \* history: the hash response received, with its iteration
    loadError,    \* history: the message load_account / fetch_base_fee raised
    printed,      \* history: what send_pi wrote to stdout in this request
    inflight,     \* history: submissions sent and not yet answered
    pair          \* history of a paired run: the ledger dialogue of the Flask
                  \* send_pi, replayed to the Streamlit send_pi

vars == <<frontend, via, pc, form, args, keypair, server, sender_kp, attempts,
          last_error, send_amount, account, base_fee, tx, result, page,
          keyCache, serverCache, calls, iter, lastOutcome, slept, allPrior429,
          hashSeen, loadError, printed, inflight, pair>>

----------------------------------------------------------------------------
(* Bounds of the model *)

MaxBalance == 2        \* balances 0 .. MaxBalance hundredths
MaxAmount == 1         \* requested amounts -1 .. MaxAmount hundredths
MaxAttemptsArg == 4    \* direct calls pass max_attempts in -1 .. MaxAttemptsArg

(* Program constants *)

RESERVE_AMOUNT == 1            \* 0.01 Pi in hundredths
DefaultMaxAttempts == 50       \* send_pi(..., max_attempts=50)
RequiredWords == 24            \* len(mnemonic.split()) != 24
PrintedDenominator == 50       \* print(f"Attempts: {attempts}/50")

None == "<None>"               \* Python's None

Frontends == {"flask", "streamlit"}
ScenarioBalances == {500, 1050}          \* 5.0 and 10.5 Pi
ScenarioAmounts == {1000}                \* 10.0 Pi
Balances == (0 .. MaxBalance) \cup ScenarioBalances
Amounts == (-1 .. MaxAmount) \cup ScenarioAmounts
MaxAttemptsArgs == -1 .. MaxAttemptsArg

Max(a, b) == IF a >= b THEN a ELSE b
Min(a, b) == IF a <= b THEN a ELSE b

(* "sub" in s *)
Contains(s, sub) ==
    \E i \in 1 .. (Len(s) - Len(sub) + 1) : SubSeq(s, i, i + Len(sub) - 1) = sub

(* a or b, on str-or-None operands: None and "" are falsy *)
PyOr(a, b) == IF a = None \/ a = "" THEN b ELSE a

----------------------------------------------------------------------------
(* Inputs *)

Mnemonics == {"", "valid24", "other24", "valid12", "badsum24"}
WordCount(m) == CASE m = "" -> 0
                  [] m = "valid12" -> 12
                  [] OTHER -> 24
IsValid(m) == m \in {"valid24", "other24", "valid12"}       \* Bip39MnemonicValidator.IsValid

Destinations == {"", "GDEST"}
ValidAddress(d) == d = "GDEST"

(* messages of the exceptions a ledger call can raise *)
TransportErrors == {"", "timeout", "429 Too Many Requests"}
BuildError == "Invalid Ed25519 Public Key"

(* responses of submit_transaction: dicts, as functions from keys to values *)
Responses == {[hash |-> "H"], [status |-> "rejected"]}

Derive(m) == [pub |-> "G:" \o m, secret |-> "S:" \o m]
Secrets == {"S:valid24", "not-a-seed"}
SecretValid(s) == s # "not-a-seed"               \* Keypair.from_secret accepts s

NoArgs == [sender_pub |-> None, sender_secret |-> None, dest_address |-> None,
           amount |-> 0, available_balance |-> 0, sweep |-> FALSE,
           max_attempts |-> 0]
NoForm == [mnemonic |-> None, destination |-> None, amount |-> 0, sweep |-> FALSE]
NoKeypair == [pub |-> None, secret |-> None]
NoResult == [kind |-> "none"]
NoPage == [kind |-> "none"]
NoCalls == [derive |-> 0, account_query |-> 0, get_server |-> 0, from_secret |-> 0,
            load_account |-> 0, fetch_base_fee |-> 0, build |-> 0, sign |-> 0,
            submit |-> 0, hashes |-> 0]
NoTx == [source |-> None, base_fee |-> 0, destination |-> None, amount |-> 0,
         signed_by |-> None]              \* tx is not bound yet
NoHash == [at |-> 0, hash |-> None]
NoOutcome == [kind |-> "none", msg |-> None]
NoPrinted == [count |-> 0, k |-> 0, of |-> 0]
NoPair == [log |-> <<>>, pos |-> 0, first |-> NoResult, diverged |-> FALSE]

Called(c, name) == [c EXCEPT ![name] = @ + 1]

----------------------------------------------------------------------------
(* The pure parts of send_pi *)

(* mutant: the reserve is not kept back when the requested amount is capped *)
SendAmountNoReserveCap(amount, available_balance, sweep) ==
    IF sweep \/ amount <= 0
    THEN Max(0, available_balance - RESERVE_AMOUNT)
    ELSE Min(amount, Max(0, available_balance))

SendAmount(amount, available_balance, sweep) ==
    IF sweep \/ amount <= 0
    THEN Max(0, available_balance - RESERVE_AMOUNT)
    ELSE Min(amount, Max(0, available_balance - RESERVE_AMOUNT))

(* mutant: the Streamlit copy of the loop test has drifted from the Flask one *)
LoopCondStreamlitDrift(n, max_attempts) ==
    IF frontend = "streamlit" THEN n <= max_attempts ELSE n < max_attempts

(* mutant: the loop test is off by one *)
LoopCondOffByOne(n, max_attempts) == n <= max_attempts

LoopCond(n, max_attempts) == n < max_attempts

(* mutant: a zero amount is let through to the builder *)
AmountTooSmallStrict(amt) == amt < 0

(* mutant: the guard before building is missing *)
AmountTooSmallNever(amt) == FALSE

AmountTooSmall(amt) == amt <= 0

HasHash(r) == "hash" \in DOMAIN r

(* mutant: every raised error is treated as a rate limit *)
IsRateLimitAlways(msg) == TRUE

IsRateLimit(msg) == Contains(msg, "429")

(* mutant: a failed load is counted as an attempt *)
LoadFailureCounted(msg) ==
    [kind |-> "failure", error |-> "Failed to load account: " \o msg, attempts |-> 1]

LoadFailure(msg) ==
    [kind |-> "failure", error |-> "Failed to load account: " \o msg, attempts |-> 0]

TooSmallFailure(n) ==
    [kind |-> "failure", error |-> "Amount too small or insufficient balance",
     attempts |-> n]

(* mutant: the success record reports the attempts before the current one *)
SuccessStaleCount(hash, amt, n) ==
    [kind |-> "success", txHash |-> hash, amount |-> amt, attempts |-> n - 1]

Success(hash, amt, n) ==
    [kind |-> "success", txHash |-> hash, amount |-> amt, attempts |-> n]

(* mutant: the fee offered is raised on every build *)
PaymentTxFeeBump(acct, fee, dest, amt) ==
    [source |-> acct, base_fee |-> fee + fee, destination |-> dest, amount |-> amt,
     signed_by |-> None]

(* TransactionBuilder(source_account=account, ..., base_fee=base_fee)        *)
(*   .append_payment_op(destination=dest_address, amount=str(send_amount))   *)
PaymentTx(acct, fee, dest, amt) ==
    [source |-> acct, base_fee |-> fee, destination |-> dest, amount |-> amt,
     signed_by |-> None]

(* print(f"Attempts: {attempts}/50"): only the Flask module's loop has it,  *)
(* and the denominator is the literal 50 of the format string                *)
Progress(f, out, n) ==
    IF f = "flask"
    THEN [count |-> out.count + 1, k |-> n, of |-> PrintedDenominator]
    ELSE out

ExhaustedFailure(err, n) ==
    [kind |-> "failure", error |-> PyOr(err, "No attempts made"), attempts |-> n]

----------------------------------------------------------------------------
Init ==
    /\ frontend = "flask"
    /\ via = "direct"
    /\ pc = "idle"
    /\ form = NoForm
    /\ args = NoArgs
    /\ keypair = NoKeypair
    /\ server = None
    /\ sender_kp = None
    /\ attempts = 0
    /\ last_error = None
    /\ send_amount = 0
    /\ account = None
    /\ base_fee = 0
    /\ tx = NoTx
    /\ result = NoResult
    /\ page = NoPage
    /\ keyCache = <<>>
    /\ serverCache = None
    /\ calls = NoCalls
    /\ iter = 0
    /\ lastOutcome = NoOutcome
    /\ slept = FALSE
    /\ allPrior429 = TRUE
    /\ hashSeen = NoHash
    /\ loadError = None
    /\ printed = NoPrinted
    /\ inflight = 0
    /\ pair = NoPair

(* every request starts from fresh locals; only the module-level caches persist *)
FreshRequest ==
    /\ keypair' = NoKeypair
    /\ server' = None
    /\ sender_kp' = None
    /\ attempts' = 0
    /\ last_error' = None
    /\ send_amount' = 0
    /\ account' = None
    /\ base_fee' = 0
    /\ tx' = NoTx
    /\ result' = NoResult
    /\ page' = NoPage
    /\ calls' = NoCalls
    /\ iter' = 0
    /\ lastOutcome' = NoOutcome
    /\ slept' = FALSE
    /\ allPrior429' = TRUE
    /\ hashSeen' = NoHash
    /\ loadError' = None
    /\ printed' = NoPrinted
    /\ inflight' = 0

----------------------------------------------------------------------------
(* get_server(): Flask builds a Server per call; Streamlit's is decorated     *)
(* with st.cache_resource, one Server object kept for the whole process.      *)
GetServer ==
    /\ server' = IF frontend = "streamlit" THEN "Server(cached)" ELSE "Server(new)"
    /\ serverCache' = IF frontend = "streamlit" THEN "Server(cached)" ELSE serverCache

(* derive_pi_keypair(mnemonic): Streamlit's is decorated with st.cache_data,  *)
(* which stores the returned (public_key, secret) under the mnemonic.         *)
DeriveKeypairCache(f, m, cache) ==
    IF f = "streamlit" /\ m \notin DOMAIN cache THEN cache @@ (m :> Derive(m)) ELSE cache

DeriveKeypairValue(f, m, cache) ==
    IF f = "streamlit" /\ m \in DOMAIN cache THEN cache[m] ELSE Derive(m)

----------------------------------------------------------------------------
(* The front ends *)

FlaskValidation(m) ==
    IF ~IsValid(m) \/ WordCount(m) # RequiredWords
    THEN "Invalid mnemonic phrase" ELSE None

StreamlitValidation(m, d) ==
    IF m = "" \/ d = "" THEN "Enter both mnemonic and destination address."
    ELSE IF ~IsValid(m) THEN "Invalid mnemonic phrase!"
    ELSE IF WordCount(m) # RequiredWords THEN "Requires 24-word mnemonic."
    ELSE None

(* mutant: the word count is not checked *)
ValidationErrorNoWordCount(f, m, d) ==
    IF f = "streamlit" /\ (m = "" \/ d = "")
    THEN "Enter both mnemonic and destination address."
    ELSE IF ~IsValid(m) THEN "Invalid mnemonic phrase" ELSE None

ValidationError(f, m, d) ==
    IF f = "flask" THEN FlaskValidation(m) ELSE StreamlitValidation(m, d)

(* a form is posted (Flask) or "Start Pi Bot" is pressed (Streamlit) *)
Post(f) ==
    /\ pc = "idle"
    /\ \E m \in Mnemonics, d \in Destinations, a \in Amounts, sw \in BOOLEAN :
          /\ f = "streamlit" => a >= 0          \* st.number_input(min_value=0.0)
          /\ form' = [mnemonic |-> m, destination |-> d, amount |-> a, sweep |-> sw]
    /\ frontend' = f
    /\ via' = "handler"
    /\ pc' = "validate"
    /\ args' = NoArgs
    /\ FreshRequest
    /\ UNCHANGED <<keyCache, serverCache, pair>>

Validate ==
    /\ pc = "validate"
    /\ LET err == ValidationError(frontend, form.mnemonic, form.destination) IN
          IF err # None
          THEN /\ page' = [kind |-> "error", text |-> err]
               /\ pc' = "shown"
          ELSE /\ page' = page
               /\ pc' = "derive"
    /\ UNCHANGED <<frontend, via, form, args, keypair, server, sender_kp, attempts,
                   last_error, send_amount, account, base_fee, tx, result,
                   keyCache, serverCache, calls, iter, lastOutcome, slept,
                   allPrior429, hashSeen, loadError,
                   printed, inflight, pair>>

DeriveKeypair ==
    /\ pc = "derive"
    /\ keypair' = DeriveKeypairValue(frontend, form.mnemonic, keyCache)
    /\ keyCache' = DeriveKeypairCache(frontend, form.mnemonic, keyCache)
    /\ calls' = Called(calls, "derive")
    /\ pc' = "query"
    /\ UNCHANGED <<frontend, via, form, args, server, sender_kp, attempts,
                   last_error, send_amount, account, base_fee, tx, result, page,
                   serverCache, iter, lastOutcome, slept, allPrior429, hashSeen, loadError,
                   printed, inflight, pair>>

(* server = get_server(); account = server.accounts().account_id(pub_key).call() *)
AccountQueryFails ==
    /\ pc = "query"
    /\ GetServer
    /\ \E msg \in TransportErrors :
          page' = [kind |-> "error", text |-> "Failed to load account: " \o msg]
    /\ calls' = Called(Called(calls, "get_server"), "account_query")
    /\ pc' = "shown"
    /\ UNCHANGED <<frontend, via, form, args, keypair, sender_kp, attempts,
                   last_error, send_amount, account, base_fee, tx, result,
                   keyCache, iter, lastOutcome, slept, allPrior429, hashSeen, loadError,
                   printed, inflight, pair>>

AccountQueryOk ==
    /\ pc = "query"
    /\ GetServer
    /\ \E b \in Balances :
          args' = [sender_pub |-> keypair.pub, sender_secret |-> keypair.secret,
                   dest_address |-> form.destination, amount |-> form.amount,
                   available_balance |-> b, sweep |-> form.sweep,
                   max_attempts |-> DefaultMaxAttempts]
    /\ calls' = Called(Called(calls, "get_server"), "account_query")
    /\ pc' = "send_pi"
    /\ UNCHANGED <<frontend, via, form, keypair, sender_kp, attempts,
                   last_error, send_amount, account, base_fee, tx, result, page,
                   keyCache, iter, lastOutcome, slept, allPrior429, hashSeen, loadError,
                   printed, inflight, pair>>

(* the front end renders what send_pi returned; a fault out of send_pi is an  *)
(* unhandled exception in Flask's index and is caught by the outer except of  *)
(* the Streamlit script                                                       *)
Render ==
    /\ pc \in {"returned", "raised"}
    /\ via = "handler"
    /\ page' = IF pc = "returned" THEN [kind |-> "output", result |-> result]
               ELSE IF frontend = "flask" THEN [kind |-> "unhandled", text |-> result.error]
               ELSE [kind |-> "error", text |-> "Error validating mnemonic: " \o result.error]
    /\ pc' = "shown"
    /\ UNCHANGED <<frontend, via, form, args, keypair, server, sender_kp, attempts,
                   last_error, send_amount, account, base_fee, tx, result,
                   keyCache, serverCache, calls, iter, lastOutcome, slept,
                   allPrior429, hashSeen, loadError,
                   printed, inflight, pair>>

(* the request is over: the handler's and send_pi's locals go out of scope *)
EndRequest ==
    /\ pc = "shown" \/ (via = "direct" /\ pc \in {"returned", "raised"})
    /\ pc' = "idle"
    /\ form' = NoForm
    /\ args' = NoArgs
    /\ FreshRequest
    /\ UNCHANGED <<frontend, via, keyCache, serverCache, pair>>

(* send_pi of module f called directly with arbitrary arguments *)
CallSendPi(f) ==
    /\ pc = "idle"
    /\ \E sec \in Secrets, d \in Destinations, a \in Amounts, b \in Balances,
          sw \in BOOLEAN, n \in MaxAttemptsArgs :
          args' = [sender_pub |-> "G:valid24", sender_secret |-> sec,
                   dest_address |-> d, amount |-> a, available_balance |-> b,
                   sweep |-> sw, max_attempts |-> n]
    /\ frontend' = f
    /\ via' = "direct"
    /\ pc' = "send_pi"
    /\ form' = NoForm
    /\ FreshRequest
    /\ UNCHANGED <<keyCache, serverCache, pair>>

----------------------------------------------------------------------------
(* send_pi *)

(* server = get_server(); sender_kp = Keypair.from_secret(sender_secret);     *)
(* attempts = 0; last_error = None; send_amount = ...   (outside any try)     *)
SendPiEnter ==
    /\ pc = "send_pi"
    /\ GetServer
    /\ calls' = Called(Called(calls, "get_server"), "from_secret")
    /\ IF SecretValid(args.sender_secret)
       THEN /\ sender_kp' = args.sender_secret
            /\ send_amount' = SendAmount(args.amount, args.available_balance, args.sweep)
            /\ pc' = "load"
            /\ result' = result
       ELSE /\ pc' = "raised"
            /\ result' = [kind |-> "raised", error |-> "Invalid Ed25519 Secret Seed"]
            /\ UNCHANGED <<sender_kp, send_amount>>
    /\ attempts' = 0
    /\ last_error' = None
    /\ UNCHANGED <<frontend, via, form, args, keypair, account, base_fee, tx, page,
                   keyCache, iter, lastOutcome, slept, allPrior429, hashSeen, loadError,
                   printed, inflight, pair>>

(* the ledger dialogue of a paired run: the Flask send_pi's calls and their   *)
(* outcomes are recorded, the Streamlit send_pi is then given the same       *)
(* outcomes call by call; outside a paired run nothing is recorded           *)
Ledger(call, arg, kind, val) ==
    IF via # "pair" THEN pair' = pair
    ELSE IF pair.pos = 0
    THEN pair' = [pair EXCEPT !.log = Append(@, [call |-> call, arg |-> arg,
                                                  kind |-> kind, val |-> val])]
    ELSE /\ pair.pos <= Len(pair.log)
         /\ pair.log[pair.pos].call = call
         /\ pair.log[pair.pos].kind = kind
         /\ pair.log[pair.pos].val = val
         /\ pair' = [pair EXCEPT !.pos = @ + 1,
                                 !.diverged = @ \/ pair.log[pair.pos].arg # arg]

ResponseKind(r) == IF HasHash(r) THEN "hash" ELSE "rejected"
ResponseText(r) == IF HasHash(r) THEN r.hash ELSE r.status

(* return <record> *)
Return(r) ==
    /\ result' = r
    /\ pc' = "returned"

(* account = server.load_account(sender_pub) *)
LoadAccountOk ==
    /\ pc = "load"
    /\ account' = "Account(" \o args.sender_pub \o ")"
    /\ calls' = Called(calls, "load_account")
    /\ pc' = "fee"
    /\ Ledger("load_account", args.sender_pub, "ok", "")
    /\ UNCHANGED <<frontend, via, form, args, keypair, server, sender_kp, attempts,
                   last_error, send_amount, base_fee, tx, result, page, keyCache,
                   serverCache, iter, lastOutcome, slept, allPrior429, hashSeen, loadError,
                   printed, inflight>>

LoadAccountRaises ==
    /\ pc = "load"
    /\ \E msg \in TransportErrors :
          /\ Return(LoadFailure(msg))
          /\ loadError' = msg
          /\ Ledger("load_account", args.sender_pub, "raise", msg)
    /\ calls' = Called(calls, "load_account")
    /\ UNCHANGED <<frontend, via, form, args, keypair, server, sender_kp, attempts,
                   last_error, send_amount, account, base_fee, tx, page, keyCache,
                   serverCache, iter, lastOutcome, slept, allPrior429, hashSeen,
                   printed, inflight>>

(* base_fee = server.fetch_base_fee() *)
FetchBaseFeeOk ==
    /\ pc = "fee"
    /\ base_fee' = 100
    /\ calls' = Called(calls, "fetch_base_fee")
    /\ pc' = "while"
    /\ Ledger("fetch_base_fee", "", "ok", "")
    /\ UNCHANGED <<frontend, via, form, args, keypair, server, sender_kp, attempts,
                   last_error, send_amount, account, tx, result, page, keyCache,
                   serverCache, iter, lastOutcome, slept, allPrior429, hashSeen, loadError,
                   printed, inflight>>

FetchBaseFeeRaises ==
    /\ pc = "fee"
    /\ \E msg \in TransportErrors :
          /\ Return(LoadFailure(msg))
          /\ loadError' = msg
          /\ Ledger("fetch_base_fee", "", "raise", msg)
    /\ calls' = Called(calls, "fetch_base_fee")
    /\ UNCHANGED <<frontend, via, form, args, keypair, server, sender_kp, attempts,
                   last_error, send_amount, account, base_fee, tx, page, keyCache,
                   serverCache, iter, lastOutcome, slept, allPrior429, hashSeen,
                   printed, inflight>>

(* while attempts < max_attempts: attempts += 1; try: if send_amount <= 0: return ... *)
LoopEnter ==
    /\ pc = "while"
    /\ LoopCond(attempts, args.max_attempts)
    /\ attempts' = attempts + 1
    /\ iter' = iter + 1
    /\ printed' = Progress(frontend, printed, attempts')
    /\ IF AmountTooSmall(send_amount)
       THEN Return(TooSmallFailure(attempts'))
       ELSE /\ pc' = "build"
            /\ result' = result
    /\ UNCHANGED <<frontend, via, form, args, keypair, server, sender_kp,
                   last_error, send_amount, account, base_fee, tx, page, keyCache,
                   serverCache, calls, lastOutcome, slept, allPrior429, hashSeen, loadError,
                   inflight, pair>>

(* the loop condition is false: return {... last_error or "No attempts made" ...} *)
LoopExit ==
    /\ pc = "while"
    /\ ~LoopCond(attempts, args.max_attempts)
    /\ Return(ExhaustedFailure(last_error, attempts))
    /\ UNCHANGED <<frontend, via, form, args, keypair, server, sender_kp, attempts,
                   last_error, send_amount, account, base_fee, tx, page, keyCache,
                   serverCache, calls, iter, lastOutcome, slept, allPrior429,
                   hashSeen, loadError,
                   printed, inflight, pair>>

(* except Exception as e: last_error = str(e); if "429" in str(e): time.sleep(0.1) *)
Except(msg) ==
    /\ last_error' = msg
    /\ pc' = IF IsRateLimit(msg) THEN "sleep" ELSE "while"
    /\ lastOutcome' = [kind |-> "raised", msg |-> msg]
    /\ slept' = FALSE
    /\ allPrior429' = (allPrior429 /\ Contains(msg, "429"))

(* tx = TransactionBuilder(account, passphrase, base_fee)                     *)
(*        .append_payment_op(dest_address, str(send_amount), native)          *)
(*        .set_timeout(30).build()                                            *)
Build ==
    /\ pc = "build"
    /\ calls' = Called(calls, "build")
    /\ IF ValidAddress(args.dest_address)
       THEN /\ tx' = PaymentTx(account, base_fee, args.dest_address, send_amount)
            /\ pc' = "sign"
            /\ UNCHANGED <<last_error, lastOutcome, slept, allPrior429>>
       ELSE /\ Except(BuildError)
            /\ tx' = tx
    /\ UNCHANGED <<frontend, via, form, args, keypair, server, sender_kp, attempts,
                   send_amount, account, base_fee, result, page, keyCache,
                   serverCache, iter, hashSeen, loadError,
                   printed, inflight, pair>>

(* tx.sign(sender_kp) *)
Sign ==
    /\ pc = "sign"
    /\ tx' = [tx EXCEPT !.signed_by = sender_kp]
    /\ calls' = Called(calls, "sign")
    /\ pc' = "submit"
    /\ UNCHANGED <<frontend, via, form, args, keypair, server, sender_kp, attempts,
                   last_error, send_amount, account, base_fee, result, page,
                   keyCache, serverCache, iter, lastOutcome, slept, allPrior429,
                   hashSeen, loadError,
                   printed, inflight, pair>>

(* mutant: the submission is sent and the loop goes on without its answer *)
SubmitTransactionNoWait ==
    /\ pc = "submit"
    /\ calls' = Called(calls, "submit")
    /\ pc' = "while"
    /\ inflight' = inflight + 1
    /\ UNCHANGED <<frontend, via, form, args, keypair, server, sender_kp, attempts,
                   last_error, send_amount, account, base_fee, tx, result, page,
                   keyCache, serverCache, iter, lastOutcome, slept, allPrior429,
                   hashSeen, loadError,
                   printed, pair>>


(* result = server.submit_transaction(tx): the request goes out *)
SubmitTransaction ==
    /\ pc = "submit"
    /\ calls' = Called(calls, "submit")
    /\ pc' = "await"
    /\ inflight' = inflight + 1
    /\ UNCHANGED <<frontend, via, form, args, keypair, server, sender_kp, attempts,
                   last_error, send_amount, account, base_fee, tx, result, page,
                   keyCache, serverCache, iter, lastOutcome, slept, allPrior429,
                   hashSeen, loadError,
                   printed, pair>>

(* mutant: the success record is kept but the loop is not left *)
SubmitRespondsKeepsGoing ==
    /\ pc = "await"
    /\ inflight' = inflight - 1
    /\ \E r \in Responses :
       /\ Ledger("submit_transaction", ToString(tx), ResponseKind(r), ResponseText(r))
       /\ calls' = IF HasHash(r) THEN Called(calls, "hashes") ELSE calls
       /\ IF HasHash(r)
          THEN /\ result' = Success(r.hash, send_amount, attempts)
               /\ pc' = "while"
               /\ hashSeen' = [at |-> iter, hash |-> r.hash]
               /\ lastOutcome' = [kind |-> "hash", msg |-> None]
               /\ UNCHANGED <<last_error, slept, allPrior429>>
          ELSE /\ last_error' = "Transaction failed"
               /\ pc' = "while"
               /\ lastOutcome' = [kind |-> "rejected", msg |-> None]
               /\ slept' = FALSE
               /\ allPrior429' = FALSE
               /\ UNCHANGED <<result, hashSeen>>
    /\ UNCHANGED <<frontend, via, form, args, keypair, server, sender_kp, attempts,
                   send_amount, account, base_fee, tx, page, keyCache,
                   serverCache, iter, loadError,
                   printed>>


(* ... and is answered: if "hash" in result: return {...}; last_error = "Transaction failed" *)
SubmitResponds ==
    /\ pc = "await"
    /\ inflight' = inflight - 1
    /\ \E r \in Responses :
       /\ Ledger("submit_transaction", ToString(tx), ResponseKind(r), ResponseText(r))
       /\ calls' = IF HasHash(r) THEN Called(calls, "hashes") ELSE calls
       /\ IF HasHash(r)
          THEN /\ Return(Success(r.hash, send_amount, attempts))
               /\ hashSeen' = [at |-> iter, hash |-> r.hash]
               /\ lastOutcome' = [kind |-> "hash", msg |-> None]
               /\ UNCHANGED <<last_error, slept, allPrior429>>
          ELSE /\ last_error' = "Transaction failed"
               /\ pc' = "while"
               /\ lastOutcome' = [kind |-> "rejected", msg |-> None]
               /\ slept' = FALSE
               /\ allPrior429' = FALSE
               /\ UNCHANGED <<result, hashSeen>>
    /\ UNCHANGED <<frontend, via, form, args, keypair, server, sender_kp, attempts,
                   send_amount, account, base_fee, tx, page, keyCache,
                   serverCache, iter, loadError,
                   printed>>

(* ... or raises *)
SubmitRaises ==
    /\ pc = "await"
    /\ inflight' = inflight - 1
    /\ \E msg \in TransportErrors :
          /\ Except(msg)
          /\ Ledger("submit_transaction", ToString(tx), "raise", msg)
    /\ UNCHANGED <<frontend, via, form, args, keypair, server, sender_kp, attempts,
                   send_amount, account, base_fee, tx, result, page, keyCache,
                   serverCache, calls, iter, hashSeen, loadError,
                   printed>>

(* time.sleep(0.1) *)
Sleep ==
    /\ pc = "sleep"
    /\ slept' = TRUE
    /\ pc' = "while"
    /\ UNCHANGED <<frontend, via, form, args, keypair, server, sender_kp, attempts,
                   last_error, send_amount, account, base_fee, tx, result, page,
                   keyCache, serverCache, calls, iter, lastOutcome, allPrior429,
                   hashSeen, loadError,
                   printed, inflight, pair>>

----------------------------------------------------------------------------
SendPiNext ==
    \/ SendPiEnter
    \/ LoadAccountOk
    \/ LoadAccountRaises
    \/ FetchBaseFeeOk
    \/ FetchBaseFeeRaises
    \/ LoopEnter
    \/ LoopExit
    \/ Build
    \/ Sign
    \/ SubmitTransaction
    \/ SubmitResponds
    \/ SubmitRaises
    \/ Sleep

Next ==
    \/ \E f \in Frontends : Post(f)
    \/ Validate
    \/ DeriveKeypair
    \/ AccountQueryFails
    \/ AccountQueryOk
    \/ Render
    \/ EndRequest
    \/ \E f \in Frontends : CallSendPi(f)
    \/ SendPiNext

Spec == Init /\ [][Next]_vars

(* A paired run: the send_pi of the Flask module is called, then the send_pi *)
(* of the Streamlit module with the same arguments and the same answers.     *)
PairCall ==
    /\ pc = "idle"
    /\ \E sec \in Secrets, d \in Destinations, a \in Amounts, b \in Balances,
          sw \in BOOLEAN, n \in MaxAttemptsArgs :
          args' = [sender_pub |-> "G:valid24", sender_secret |-> sec,
                   dest_address |-> d, amount |-> a, available_balance |-> b,
                   sweep |-> sw, max_attempts |-> n]
    /\ frontend' = "flask"
    /\ via' = "pair"
    /\ pc' = "send_pi"
    /\ form' = NoForm
    /\ pair' = NoPair
    /\ FreshRequest
    /\ UNCHANGED <<keyCache, serverCache>>

PairSecond ==
    /\ via = "pair" /\ pair.pos = 0
    /\ pc \in {"returned", "raised"}
    /\ pair' = [pair EXCEPT !.first = result, !.pos = 1]
    /\ frontend' = "streamlit"
    /\ pc' = "send_pi"
    /\ FreshRequest
    /\ UNCHANGED <<via, form, args, keyCache, serverCache>>

PairEnd ==
    /\ via = "pair" /\ pair.pos > 0
    /\ pc \in {"returned", "raised"}
    /\ pc' = "idle"
    /\ via' = "direct"
    /\ frontend' = "flask"
    /\ form' = NoForm
    /\ args' = NoArgs
    /\ pair' = NoPair
    /\ FreshRequest
    /\ UNCHANGED <<keyCache, serverCache>>

PairNext ==
    \/ PairCall
    \/ PairSecond
    \/ PairEnd
    \/ SendPiNext

PairSpec == Init /\ [][PairNext]_vars

(* the interpreter keeps running a request that has started *)
FairSpec == Spec /\ WF_vars(SendPiNext)

----------------------------------------------------------------------------
(* Vocabulary of the properties *)

InSendPi == pc \in {"send_pi", "load", "fee", "while", "build", "sign", "submit",
                    "await", "sleep"}
Returned == result.kind \in {"success", "failure"}
LoadSucceeded == account # None /\ base_fee # 0
AmountComputed == sender_kp # None
LedgerCalls ==
    calls.account_query + calls.load_account + calls.fetch_base_fee + calls.submit

----------------------------------------------------------------------------
(* C1 as stated: with max_attempts >= 0 and the account loaded, send_pi      *)
(* returns a record whose attempts is at most max_attempts, and it returns   *)
(* either at the first attempt whose submission yields a hash or after       *)
(* exactly max_attempts unsuccessful iterations.                             *)
C1_ReturnsAtHashOrBudget ==
    (Returned /\ LoadSucceeded /\ args.max_attempts >= 0 /\ args.amount >= 0) =>
        /\ result.attempts <= args.max_attempts
        /\ \/ result.kind = "success" /\ hashSeen.at = iter
           \/ result.kind = "failure" /\ hashSeen.at = 0 /\ iter = args.max_attempts

C1_ReturnShape ==
    (Returned /\ args.max_attempts >= 0) =>
        /\ result.attempts <= args.max_attempts
        /\ result.attempts = iter
        /\ \/ ~LoadSucceeded /\ result.kind = "failure" /\ iter = 0
           \/ /\ LoadSucceeded /\ send_amount <= 0 /\ args.max_attempts >= 1
              /\ result.kind = "failure" /\ iter = 1
           \/ LoadSucceeded /\ result.kind = "success" /\ hashSeen.at = iter
           \/ /\ LoadSucceeded /\ result.kind = "failure" /\ hashSeen.at = 0
              /\ iter = args.max_attempts

(* C1 amended: send_pi terminates; a record it returns has attempts at most  *)
(* max_attempts (for max_attempts >= 0), and it returns at a failed load     *)
(* (0 attempts), at the first iteration when send_amount <= 0, at the first  *)
(* attempt whose submission yields a hash, or after exactly max_attempts     *)
(* unsuccessful iterations.                                                  *)
C1_BoundedTermination ==
    /\ []C1_ReturnShape
    /\ (pc = "send_pi") ~> (pc \in {"returned", "raised"})

C1_BudgetExhausted ==
    /\ pc = "returned" /\ result.kind = "failure"
    /\ args.max_attempts = 4 /\ result.attempts = 4 /\ calls.submit = 4

(* C2: the first response that contains a hash H ends send_pi at once with   *)
(* the success record: txHash = H, amount = send_amount, attempts = the      *)
(* number of that attempt (three rate-limit errors, then H: attempts = 4).   *)
C2_SuccessRecord ==
    hashSeen.at # 0 =>
        /\ pc \in {"returned", "shown"}
        /\ iter = hashSeen.at
        /\ calls.submit = hashSeen.at
        /\ result = [kind |-> "success", txHash |-> hashSeen.hash,
                     amount |-> send_amount, attempts |-> hashSeen.at]

C2_ThreeRateLimitsThenHash ==
    /\ pc = "returned" /\ hashSeen = [at |-> 4, hash |-> "H"]
    /\ allPrior429 /\ slept /\ calls.submit = 4
    /\ result.kind = "success" /\ result.attempts = 4

(* C3 as stated: the account loaded and none of the max_attempts submissions *)
(* yielded a hash: the failure record has attempts = max_attempts and the    *)
(* error the last attempt recorded, "No attempts made" only if none was      *)
(* ever recorded.                                                            *)
C3_LastErrorSurfaced ==
    (/\ pc = "returned" /\ LoadSucceeded /\ args.max_attempts >= 0
     /\ calls.submit = args.max_attempts /\ hashSeen.at = 0) =>
        /\ result.kind = "failure"
        /\ result.attempts = args.max_attempts
        /\ result.error = IF lastOutcome.kind = "none" THEN "No attempts made"
                          ELSE IF lastOutcome.kind = "raised" THEN lastOutcome.msg
                          ELSE "Transaction failed"

(* C4: a raise of load_account or fetch_base_fee ends send_pi with the       *)
(* failure record of 0 attempts and "Failed to load account: " + message;    *)
(* the load is not retried and nothing is built, signed or submitted.        *)
C4_LoadFailureIsFatal ==
    loadError # None =>
        /\ pc \in {"returned", "shown"}
        /\ result = [kind |-> "failure",
                     error |-> "Failed to load account: " \o loadError,
                     attempts |-> 0]
        /\ calls.load_account = 1 /\ calls.fetch_base_fee <= 1
        /\ iter = 0 /\ tx = NoTx
        /\ calls.build = 0 /\ calls.sign = 0 /\ calls.submit = 0

C4_FeeFetchFailed ==
    /\ pc = "returned" /\ loadError = "timeout"
    /\ account # None /\ calls.fetch_base_fee = 1

(* C5: for a non-negative requested amount, send_amount is                   *)
(* max(0, B - 0.01) when sweep is set or the request is 0, and               *)
(* min(requested, max(0, B - 0.01)) otherwise; 10.5 swept gives 10.49 and    *)
(* 10.0 requested of 5.0 gives 4.99.                                         *)
C5_AmountFormula ==
    /\ (AmountComputed /\ args.amount >= 0) =>
          send_amount =
             IF args.sweep \/ args.amount = 0
             THEN (IF args.available_balance - 1 > 0
                   THEN args.available_balance - 1 ELSE 0)
             ELSE (IF args.available_balance - 1 <= 0 THEN 0
                   ELSE IF args.amount < args.available_balance - 1
                        THEN args.amount ELSE args.available_balance - 1)
    /\ (AmountComputed /\ args.available_balance = 1050 /\ args.sweep)
          => send_amount = 1049
    /\ (AmountComputed /\ args.available_balance = 500 /\ args.amount = 1000
        /\ ~args.sweep) => send_amount = 499

C5_RequestCapped ==
    /\ AmountComputed /\ ~args.sweep
    /\ args.amount = 1000 /\ args.available_balance = 500 /\ send_amount = 499

(* C6 as stated: with the account loaded and send_amount <= 0 the loop runs  *)
(* the full budget, the result has attempts = max_attempts.                  *)
C6_FullBudgetConsumed ==
    (/\ Returned /\ LoadSucceeded /\ send_amount <= 0 /\ args.max_attempts >= 1
     /\ args.amount >= 0) =>
        /\ result.kind = "failure"
        /\ result.error = "Amount too small or insufficient balance"
        /\ result.attempts = args.max_attempts

(* C6 amended: with the account loaded, send_amount <= 0 and                 *)
(* max_attempts >= 1, the first iteration returns the failure "Amount too    *)
(* small or insufficient balance" with attempts = 1; nothing is built or     *)
(* submitted and no further iteration runs.                                  *)
C6_FailsAtFirstIteration ==
    (/\ LoadSucceeded /\ send_amount <= 0 /\ args.max_attempts >= 1
     /\ pc \notin {"while"}) =>
        /\ pc \in {"returned", "shown"}
        /\ result = [kind |-> "failure",
                     error |-> "Amount too small or insufficient balance",
                     attempts |-> 1]
        /\ iter = 1
        /\ calls.build = 0 /\ calls.submit = 0

C6_ZeroBalanceDefaultBudget ==
    /\ pc = "returned" /\ LoadSucceeded
    /\ args.available_balance = 0 /\ args.amount = 0 /\ ~args.sweep
    /\ args.max_attempts = DefaultMaxAttempts /\ result.attempts = 1

(* C7: between two attempts there is a pause exactly when the earlier one    *)
(* ended with a raised error whose message contains "429"; a rejection and   *)
(* any other raised error are followed by the next attempt without a pause.  *)
C7_PauseIffRateLimit ==
    /\ (iter >= 1 /\ pc \in {"while", "build", "sign", "submit", "await"}
        /\ lastOutcome.kind # "none") =>
          (slept <=> (lastOutcome.kind = "raised" /\ Contains(lastOutcome.msg, "429")))
    /\ pc = "sleep" => (lastOutcome.kind = "raised" /\ Contains(lastOutcome.msg, "429"))

C7_PausedBeforeNextAttempt ==
    /\ pc = "build" /\ iter = 2 /\ slept
    /\ lastOutcome = [kind |-> "raised", msg |-> "429 Too Many Requests"]

(* C8 as stated: no fault of any step of send_pi (obtaining the client,      *)
(* rebuilding the keypair, loading, building, signing, submitting)           *)
(* propagates out of it: every call ends with a returned record.             *)
C8_NoFaultPropagates ==
    /\ pc # "raised"
    /\ result.kind # "raised"

(* C9: in both front ends a mnemonic that fails the checksum or has not      *)
(* exactly 24 words is rejected with an error before derive_pi_keypair and   *)
(* before any ledger call; both happen only after validation passed.         *)
C9_ValidationFirst ==
    via = "handler" =>
        /\ (calls.derive > 0 \/ LedgerCalls > 0 \/ pc \in {"derive", "query"} \/ InSendPi)
              => (IsValid(form.mnemonic) /\ WordCount(form.mnemonic) = 24)
        /\ (pc = "shown" /\ ~(IsValid(form.mnemonic) /\ WordCount(form.mnemonic) = 24))
              => (page.kind = "error" /\ calls.derive = 0 /\ LedgerCalls = 0)
        /\ (pc = "validate") => (calls.derive = 0 /\ LedgerCalls = 0)

C9_TwelveWordsRejected ==
    /\ via = "handler" /\ pc = "shown" /\ form.mnemonic = "valid12"
    /\ page.kind = "error" /\ calls.derive = 0

(* C10 as stated: between requests nothing of a request is retained: no      *)
(* derived keypair cached under its mnemonic, no shared ledger client.       *)
C10_NothingSurvives ==
    pc = "idle" => (DOMAIN keyCache = {} /\ serverCache = None)

(* C11 as stated: every loop iteration k emits exactly one progress           *)
(* notification carrying (k, max_attempts), the denominator being the         *)
(* max_attempts passed to the call.                                           *)
C11_ProgressPerIteration ==
    iter >= 1 =>
        /\ printed.count = iter
        /\ printed.k = iter
        /\ printed.of = args.max_attempts

LoopPcs == {"while", "build", "sign", "submit", "await", "sleep"}

C12_LoadedOnce ==
    /\ (pc \in LoopPcs \/ iter >= 1 \/ calls.build > 0) =>
          (calls.load_account = 1 /\ calls.fetch_base_fee = 1)
    /\ tx # NoTx =>
          /\ tx.source = account
          /\ tx.base_fee = base_fee
          /\ tx.amount = send_amount
          /\ send_amount = SendAmount(args.amount, args.available_balance, args.sweep)

C12_LoopFrame ==
    pc \in LoopPcs =>
        /\ send_amount' = send_amount
        /\ base_fee' = base_fee
        /\ account' = account
        /\ calls'.load_account = calls.load_account
        /\ calls'.fetch_base_fee = calls.fetch_base_fee

(* C12: load_account and fetch_base_fee are each called exactly once, before *)
(* the first attempt and never between attempts; every attempt builds its    *)
(* transaction from that account object, that base fee and the send_amount   *)
(* computed before the loop, none of which a loop iteration changes.         *)
C12_SnapshotFixed ==
    /\ []C12_LoadedOnce
    /\ [][C12_LoopFrame]_vars

C12_SecondBuildSameSnapshot ==
    /\ pc = "sign" /\ iter = 2 /\ calls.build = 2
    /\ calls.load_account = 1 /\ calls.fetch_base_fee = 1
    /\ tx.source = account /\ tx.amount = send_amount

C13_OneInFlight ==
    /\ inflight \in {0, 1}
    /\ pc \in {"while", "build", "sign", "submit", "sleep", "returned"} => inflight = 0

C13_NextAfterAnswer ==
    /\ iter' = iter + 1 =>
          /\ inflight = 0
          /\ (lastOutcome.kind = "raised" /\ Contains(lastOutcome.msg, "429")) => slept
    /\ calls'.build = calls.build + 1 => inflight = 0
    /\ inflight' = inflight + 1 => inflight = 0

(* C13: the attempts of a request are strictly sequential: an attempt is     *)
(* begun (and its transaction built) only when the previous submission has   *)
(* been answered or has raised and any rate-limit pause is over; two         *)
(* submissions of a request are never in flight together.                    *)
C13_Sequential ==
    /\ []C13_OneInFlight
    /\ [][C13_NextAfterAnswer]_vars

C13_SecondSubmissionInFlight ==
    /\ pc = "await" /\ iter = 2 /\ calls.submit = 2 /\ inflight = 1

NextLogged ==
    IF pair.pos <= Len(pair.log) THEN pair.log[pair.pos].call ELSE "none"

(* C14: given the arguments and the ledger answers of a run of the Flask     *)
(* send_pi, the Streamlit send_pi makes the same ledger calls with the same  *)
(* arguments in the same order and returns the same result (or raises the    *)
(* same fault).                                                              *)
C14_SameDialogueSameResult ==
    (via = "pair" /\ pair.pos > 0) =>
        /\ ~pair.diverged
        /\ pc = "load" => NextLogged = "load_account"
        /\ pc = "fee" => NextLogged = "fetch_base_fee"
        /\ pc = "await" => NextLogged = "submit_transaction"
        /\ pc \in {"returned", "raised"} =>
              (pair.pos = Len(pair.log) + 1 /\ result = pair.first)

C14_ReplayedToSuccess ==
    /\ via = "pair" /\ frontend = "streamlit" /\ pc = "returned"
    /\ Len(pair.log) = 4 /\ pair.pos = 5
    /\ result.kind = "success" /\ result.attempts = 2

C15_AtMostOneHash ==
    /\ calls.hashes <= 1
    /\ hashSeen.at # 0 => calls.hashes = 1
    /\ Returned => calls.submit <= result.attempts

C15_NothingAfterHash ==
    calls.hashes >= 1 =>
        /\ calls'.build <= calls.build
        /\ calls'.sign <= calls.sign
        /\ calls'.submit <= calls.submit

(* C15: once a submission has been answered with a hash, send_pi builds and  *)
(* submits nothing more, so at most one submission of a request is answered  *)
(* with a hash; the submissions made never outnumber the attempts returned.  *)
C15_SingleAcceptance ==
    /\ []C15_AtMostOneHash
    /\ [][C15_NothingAfterHash]_vars

C15_AcceptedAtSecondAttempt ==
    /\ pc = "returned" /\ calls.hashes = 1
    /\ calls.submit = 2 /\ result.kind = "success" /\ result.attempts = 2

(* C16: every transaction built or submitted carries an amount that is       *)
(* strictly positive and at most available_balance - RESERVE_AMOUNT, for     *)
(* every balance, requested amount (negative ones included) and sweep flag;  *)
(* when send_amount <= 0 nothing is built or submitted.                      *)
C16_AmountWithinReserve ==
    /\ pc \in {"sign", "submit", "await"} => tx # NoTx
    /\ tx # NoTx =>
           /\ tx.amount > 0
           /\ tx.amount <= args.available_balance - RESERVE_AMOUNT
           /\ tx.amount = send_amount
    /\ (AmountComputed /\ send_amount <= 0) =>
           /\ tx = NoTx
           /\ calls.build = 0 /\ calls.sign = 0 /\ calls.submit = 0

C16_NegativeRequestSubmitted ==
    /\ pc = "await" /\ args.amount < 0 /\ ~args.sweep
    /\ tx.amount = args.available_balance - RESERVE_AMOUNT

(* C17 as stated: send_pi returns "No attempts made" exactly when the        *)
(* account loaded and max_attempts <= 0, and then attempts = 0 and nothing   *)
(* was built or submitted; once an iteration has run, a failure carries a    *)
(* non-empty error that was recorded.                                        *)
C17_NoAttemptsOnlyWhenNoneRan ==
    pc = "returned" =>
        /\ (result.kind = "failure" /\ result.error = "No attempts made")
               <=> (LoadSucceeded /\ args.max_attempts <= 0)
        /\ (result.kind = "failure" /\ result.error = "No attempts made") =>
               /\ result.attempts = 0
               /\ calls.build = 0 /\ calls.submit = 0
        /\ (result.kind = "failure" /\ iter >= 1) =>
               result.error \notin {"", "No attempts made"}

====
